---- MODULE Spec2Model ----
(***************************************************************************)
(* Model of src/main.py: SemanticAnalyzer, an ast.NodeVisitor that walks a *)
(* Python AST with one symbol table, and analyze_semantics, which runs it  *)
(* and turns the first exception into the failure verdict.                 *)
(*                                                                         *)
(* The AST is produced lazily: each Visit* step draws the next child the   *)
(* innermost generic_visit loop hands to visit() and runs the whole        *)
(* handler of its class on it.  Leave ends the child loop of a FunctionDef *)
(* or ClassDef, Finish that of the Module.                                 *)
(***************************************************************************)
EXTENDS Naturals, Sequences, FiniteSets

VARIABLES
    symbol_table,  \* SemanticAnalyzer.symbol_table: a list of dicts name -> type
    frames,        \* open generic_visit activations (Module, FunctionDef, ClassDef), outermost
                   \* first; each holds the bindings the handlers made while it was innermost
    node,          \* the node last handed to visit()
    pc,            \* "loop": generic_visit is between two children; "next": visit(node)
                   \* has returned; "done": analyze_semantics has printed its verdict
    verdict,       \* "running" | "success" | "failure": what analyze_semantics prints
    diag,          \* the exception analyze_semantics caught
    visited        \* number of nodes dispatched so far

vars == <<symbol_table, frames, node, pc, verdict, diag, visited>>

-----------------------------------------------------------------------------
(* Bounds of the model *)

MaxNodes == 2
MaxNest == 1

-----------------------------------------------------------------------------
(* Names and types *)

Names == {"x", "f"}
\* dir(__builtins__) restricted to the names the model's programs use
Builtins == {"print"}
Callees == Names \cup Builtins

\* int, float, str are Python's type objects; the others are the string tags
\* the handlers store
DataTypes == {"int", "float", "str"}
Types == DataTypes \cup {"function", "class", "variable"}

EmptyScope == [n \in {} |-> "int"]

\* dict[name] = type
Bind(scope, n, t) == [m \in (DOMAIN scope) \cup {n} |-> IF m = n THEN t ELSE scope[m]]

RECURSIVE BindAll(_, _, _)
BindAll(scope, ns, t) ==
    IF ns = <<>> THEN scope
    ELSE BindAll(Bind(scope, Head(ns), t), Tail(ns), t)

\* symbol_table[-1][name] = type
BindLast(st, n, t) == [st EXCEPT ![Len(st)] = Bind(st[Len(st)], n, t)]

-----------------------------------------------------------------------------
(* Diagnostics: the exceptions the handlers raise *)

NoDiag == [kind |-> "None", args |-> <<>>]
UndefinedName(n) == [kind |-> "UndefinedName", args |-> <<n>>]
UndefinedCall(n) == [kind |-> "UndefinedCall", args |-> <<n>>]
TypeMismatch(l, r) == [kind |-> "TypeMismatch", args |-> <<l, r>>]
UnknownNode(k) == [kind |-> "UnknownNode", args |-> <<k>>]
UnsupportedTarget == [kind |-> "UnsupportedAssignmentTarget", args |-> <<>>]

-----------------------------------------------------------------------------
(* Expressions *)

NoExpr == [kind |-> "None", id |-> "", kids |-> <<>>]
Name(n) == [kind |-> "Name", id |-> n, kids |-> <<>>]
Num(t) == [kind |-> "Num", id |-> t, kids |-> <<>>]
Str == [kind |-> "Str", id |-> "", kids |-> <<>>]
BinOp(op, l, r) == [kind |-> "BinOp", id |-> op, kids |-> <<l, r>>]
Call(fn, as) == [kind |-> "Call", id |-> fn, kids |-> as]

Ops == {"Add", "Sub"}
Literals == {Num("int"), Num("float"), Str}
Atoms == Literals \cup {Name(n) : n \in Names}
BinOps1 == {BinOp(op, l, r) : op \in Ops, l \in Atoms, r \in Atoms}
\* a op a op a over a literal, as the parser nests it
Chains == {BinOp(op, BinOp(op, a, a), a) : op \in Ops, a \in Literals}
Operands == Atoms \cup BinOps1 \cup Chains
Calls == {Call(fn, <<>>) : fn \in Callees}
           \cup {Call(fn, <<a>>) : fn \in Callees, a \in Atoms}
Exprs == Operands \cup Calls

\* get_value_type: a type, or the exception raised
Typed(t) == [ok |-> TRUE, type |-> t, diag |-> NoDiag]
Raised(d) == [ok |-> FALSE, type |-> "", diag |-> d]

RECURSIVE get_value_type(_, _)
get_value_type(e, st) ==
    IF e.kind = "Name" THEN
        IF e.id \in DOMAIN st[Len(st)] THEN Typed(st[Len(st)][e.id])
        ELSE Raised(UndefinedName(e.id))
    ELSE IF e.kind = "BinOp" THEN
        LET l == get_value_type(e.kids[1], st) IN
        IF ~l.ok THEN l ELSE
        LET r == get_value_type(e.kids[2], st) IN
        IF ~r.ok THEN r ELSE
        IF l.type = r.type \/ <<l.type, r.type>> \in {<<"int", "float">>, <<"float", "int">>}
        THEN Typed("float")
        ELSE Raised(TypeMismatch(l.type, r.type))
    ELSE IF e.kind = "Num" THEN Typed(e.id)
    ELSE IF e.kind = "Str" THEN Typed("str")
    ELSE Raised(UnknownNode(e.kind))

\* the pairs visit_BinOp accepts
BinOpPairs ==
    {<<"int", "float">>, <<"float", "int">>, <<"int", "int">>,
     <<"float", "float">>, <<"str", "str">>}

visit_Name(e, st) ==
    IF \E i \in 1..Len(st) : e.id \in DOMAIN st[i] THEN NoDiag
    ELSE UndefinedName(e.id)

\* the first exception among the visits of es, in order
RECURSIVE visit(_, _)
RECURSIVE visit_all(_, _)
visit_all(es, st) ==
    IF es = <<>> THEN NoDiag
    ELSE LET d == visit(Head(es), st) IN
         IF d # NoDiag THEN d ELSE visit_all(Tail(es), st)

visit_Call(e, st) ==
    IF e.id \notin Builtins THEN UndefinedCall(e.id)
    ELSE visit_all(e.kids, st)

visit_BinOp(e, st) ==
    LET d == visit_all(e.kids, st) IN
    IF d # NoDiag THEN d ELSE
    LET l == get_value_type(e.kids[1], st) IN
    IF ~l.ok THEN l.diag ELSE
    LET r == get_value_type(e.kids[2], st) IN
    IF ~r.ok THEN r.diag ELSE
    IF <<l.type, r.type>> \notin BinOpPairs THEN TypeMismatch(l.type, r.type)
    ELSE NoDiag

\* NodeVisitor.visit on an expression: the handler of its class, else
\* generic_visit over its children (a literal has none)
visit(e, st) ==
    IF e.kind = "Name" THEN visit_Name(e, st)
    ELSE IF e.kind = "Call" THEN visit_Call(e, st)
    ELSE IF e.kind = "BinOp" THEN visit_BinOp(e, st)
    ELSE visit_all(e.kids, st)

-----------------------------------------------------------------------------
(* Statements *)

Stmt(k, i, ns, v) == [kind |-> k, id |-> i, names |-> ns, value |-> v]
Module == Stmt("Module", "", <<>>, NoExpr)
\* control is back in a child loop after a FunctionDef or ClassDef visit ended
EndOfBody == Stmt("EndOfBody", "", <<>>, NoExpr)
\* control is in a child loop, no child in hand
NoNode == Stmt("None", "", <<>>, NoExpr)

\* node classes SemanticAnalyzer has no visit_* method for
WrapperKinds == {"Expr", "Return"}
\* an assignment target that is no ast.Name
NonName == "Subscript"
TargetNodes == Names \cup {NonName}
Targets == {<<t>> : t \in TargetNodes} \cup {<<t, u>> : t \in TargetNodes, u \in TargetNodes}
Params == {<<>>} \cup {<<p>> : p \in Names}
Values == Operands \cup {Call("print", <<>>)}

Wrappers == {Stmt(k, "", <<>>, e) : k \in WrapperKinds, e \in Exprs}
Assigns == {Stmt("Assign", "", ts, v) : ts \in Targets, v \in Values}
FunctionDefs == {Stmt("FunctionDef", n, ps, NoExpr) : n \in Names, ps \in Params}
ClassDefs == {Stmt("ClassDef", n, <<>>, NoExpr) : n \in Names}

-----------------------------------------------------------------------------
(* The walker *)

Init ==
    /\ symbol_table = <<EmptyScope>>
    /\ frames = <<EmptyScope>>
    /\ node = Module
    /\ pc = "loop"
    /\ verdict = "running"
    /\ diag = NoDiag
    /\ visited = 0

\* Raise, were the analysis error-accumulating: the diagnostic is recorded
\* and the traversal goes on
RaiseAndContinue(d) ==
    /\ verdict' = verdict
    /\ diag' = d
    /\ pc' = "next"

\* an exception leaves the handler and every caller up to analyze_semantics,
\* which prints the failure
Raise(d) ==
    /\ verdict' = "failure"
    /\ diag' = d
    /\ pc' = "done"

Return ==
    /\ pc' = "next"
    /\ UNCHANGED <<verdict, diag>>

\* generic_visit hands child n to visit()
Dispatch(n) ==
    /\ pc = "loop"
    /\ visited < MaxNodes
    /\ node' = n
    /\ visited' = visited + 1

\* GenericVisit, were a node without a handler rejected
GenericVisitRejects(n) ==
    /\ Dispatch(n)
    /\ Raise(UnknownNode(n.kind))
    /\ UNCHANGED <<symbol_table, frames>>

\* a node without a handler: generic_visit visits its child
GenericVisit(n) ==
    /\ Dispatch(n)
    /\ LET d == visit(n.value, symbol_table) IN
       IF d # NoDiag THEN Raise(d) ELSE Return
    /\ UNCHANGED <<symbol_table, frames>>

\* binds the name and the parameters; Return leaves control in the child loop
\* of generic_visit(node), which Leave ends
VisitFunctionDef(n) ==
    /\ Dispatch(n)
    /\ Len(frames) <= MaxNest
    /\ symbol_table' = [symbol_table EXCEPT ![Len(symbol_table)] =
                            BindAll(Bind(@, n.id, "function"), n.names, "variable")]
    /\ frames' = Append([frames EXCEPT ![Len(frames)] = Bind(@, n.id, "function")],
                        BindAll(EmptyScope, n.names, "variable"))
    /\ Return

VisitClassDef(n) ==
    /\ Dispatch(n)
    /\ Len(frames) <= MaxNest
    /\ symbol_table' = BindLast(symbol_table, n.id, "class")
    /\ frames' = Append([frames EXCEPT ![Len(frames)] = Bind(@, n.id, "class")], EmptyScope)
    /\ Return

\* assign_targets, were only a single target supported
assign_targets_single(ts, value, st, done) ==
    IF Len(ts) = 1 /\ Head(ts) \in Names THEN
        LET vt == get_value_type(value, st) IN
        IF ~vt.ok THEN [st |-> st, done |-> done, diag |-> vt.diag]
        ELSE [st |-> BindLast(st, Head(ts), vt.type), done |-> done + 1, diag |-> NoDiag]
    ELSE [st |-> st, done |-> done, diag |-> UnsupportedTarget]

\* the loop of visit_Assign over targets ts: the table it leaves, how many
\* targets it bound, and the exception that ended it
RECURSIVE assign_targets(_, _, _, _)
assign_targets(ts, value, st, done) ==
    IF ts = <<>> THEN [st |-> st, done |-> done, diag |-> NoDiag]
    ELSE IF Head(ts) \in Names THEN
        LET vt == get_value_type(value, st) IN
        IF ~vt.ok THEN [st |-> st, done |-> done, diag |-> vt.diag]
        ELSE assign_targets(Tail(ts), value, BindLast(st, Head(ts), vt.type), done + 1)
    ELSE [st |-> st, done |-> done, diag |-> UnsupportedTarget]

\* the bindings of names ns copied from scope src into scope dst
RECURSIVE CopyBindings(_, _, _)
CopyBindings(dst, ns, src) ==
    IF ns = <<>> THEN dst
    ELSE CopyBindings(Bind(dst, Head(ns), src[Head(ns)]), Tail(ns), src)

VisitAssign(n) ==
    /\ Dispatch(n)
    /\ LET r == assign_targets(n.names, n.value, symbol_table, 0) IN
       /\ symbol_table' = r.st
       /\ frames' = [frames EXCEPT ![Len(frames)] =
                        CopyBindings(@, SubSeq(n.names, 1, r.done), r.st[Len(r.st)])]
       /\ IF r.diag # NoDiag THEN Raise(r.diag) ELSE Return

\* the handler returned; generic_visit goes on to the next child
Advance ==
    /\ pc = "next"
    /\ pc' = "loop"
    /\ node' = NoNode
    /\ UNCHANGED <<symbol_table, frames, verdict, diag, visited>>

\* Leave, were the innermost scope popped on the way out although none was
\* pushed on the way in
LeavePops ==
    /\ pc = "loop"
    /\ Len(frames) > 1
    /\ frames' = SubSeq(frames, 1, Len(frames) - 1)
    /\ symbol_table' = SubSeq(symbol_table, 1, Len(symbol_table) - 1)
    /\ node' = EndOfBody
    /\ pc' = "next"
    /\ UNCHANGED <<verdict, diag, visited>>

\* the children of a FunctionDef or ClassDef are exhausted: generic_visit and
\* the handler return
Leave ==
    /\ pc = "loop"
    /\ Len(frames) > 1
    /\ frames' = SubSeq(frames, 1, Len(frames) - 1)
    /\ node' = EndOfBody
    /\ pc' = "next"
    /\ UNCHANGED <<symbol_table, verdict, diag, visited>>

\* the children of the Module are exhausted: analyzer.visit(tree) returns
Finish ==
    /\ pc = "loop"
    /\ Len(frames) = 1
    /\ verdict' = "success"
    /\ pc' = "done"
    /\ UNCHANGED <<symbol_table, frames, node, diag, visited>>

Next ==
    \/ \E n \in Wrappers : GenericVisit(n)
    \/ \E n \in FunctionDefs : VisitFunctionDef(n)
    \/ \E n \in ClassDefs : VisitClassDef(n)
    \/ \E n \in Assigns : VisitAssign(n)
    \/ Advance
    \/ Leave
    \/ Finish

Spec == Init /\ [][Next]_vars

-----------------------------------------------------------------------------
(* Vocabulary of the properties *)

\* name n is bound in some scope of stack st
Resolves(st, n) == \E i \in 1..Len(st) : n \in DOMAIN st[i]

\* the type of the innermost binding of n in stack st
TypeOf(st, n) ==
    IF ~Resolves(st, n) THEN "unbound"
    ELSE LET i == CHOOSE i \in 1..Len(st) :
                    /\ n \in DOMAIN st[i]
                    /\ \A j \in (i + 1)..Len(st) : n \notin DOMAIN st[j]
         IN st[i][n]

\* visit(node) has been called and has returned or raised
Visited == pc # "loop" /\ node.kind \notin {"Module", "None", "EndOfBody"}

\* the step is the visit of a node
VisitStep == pc = "loop" /\ pc' # "loop" /\ node'.kind \notin {"None", "EndOfBody"}

-----------------------------------------------------------------------------
(* C1: a call to a plain user name n is accepted when n resolves to a       *)
(* symbol of kind function, fails with UndefinedCall(n) when n is bound in  *)
(* no scope, and fails when n is bound as a variable.                       *)

IsPlainCall == Visited /\ node.kind \in WrapperKinds /\ node.value.kind = "Call"
                 /\ node.value.id \in Names /\ node.value.kids = <<>>

\* C1: the verdict of a call to a plain name follows the kind of its symbol
C1_CallDecidedBySymbolTable ==
    IsPlainCall =>
        LET t == TypeOf(symbol_table, node.value.id) IN
        /\ t = "function" => verdict = "running"
        /\ t = "unbound" => verdict = "failure" /\ diag = UndefinedCall(node.value.id)
        /\ t \in DataTypes \cup {"variable"} => verdict = "failure"

-----------------------------------------------------------------------------
(* C2: when the visit of a function or class declaration ends, the scope    *)
(* holds the bindings made outside the declaration (what it held before,    *)
(* plus the declared name) and nothing bound inside: every name resolves as *)
(* it does in the bindings of the activations still open.                   *)

C2_BindingsDoNotEscape ==
    (pc = "next" /\ node = EndOfBody) =>
        \A n \in Names : TypeOf(symbol_table, n) = TypeOf(frames, n)

-----------------------------------------------------------------------------
(* C3: a read of an identifier that no declaration, parameter or assignment *)
(* of an enclosing scope has bound ends the analysis in failure with        *)
(* UndefinedName of that identifier.                                        *)

\* the identifier expression e reads first, "" when it starts otherwise
FirstName(e) ==
    IF e.kind = "Name" THEN e.id
    ELSE IF e.kind = "BinOp" /\ e.kids[1].kind = "Name" THEN e.kids[1].id
    ELSE IF e.kind = "BinOp" /\ e.kids[1] \in Literals /\ e.kids[2].kind = "Name"
         THEN e.kids[2].id
    ELSE ""

\* the identifier statement nd reads first: standalone, as the argument of a
\* built-in call, as an operand, or on the right of an assignment to a name
ReadOf(nd) ==
    IF nd.kind \in WrapperKinds THEN
        IF nd.value.kind = "Call"
        THEN IF nd.value.id \in Builtins /\ nd.value.kids # <<>>
             THEN FirstName(nd.value.kids[1]) ELSE ""
        ELSE FirstName(nd.value)
    ELSE IF nd.kind = "Assign" /\ Head(nd.names) \in Names THEN FirstName(nd.value)
    ELSE ""

\* C3: the visit of a node that first reads a name bound in no enclosing
\* scope fails with UndefinedName of that name
C3_UnboundReadFails ==
    [][(VisitStep /\ ReadOf(node') \in Names /\ ~Resolves(frames, ReadOf(node')))
         => (verdict' = "failure" /\ diag' = UndefinedName(ReadOf(node')))]_vars

-----------------------------------------------------------------------------
(* C4: the type inferred for a binary operation is the Type Lattice's       *)
(* result for the types of its operands, nested operations included:        *)
(* x = <operation over literals> binds x to that type.                      *)

\* combine of spec 4.2: the result type, "error" off the table
Combine(l, r, op) ==
    IF l = "int" /\ r = "int" THEN "int"
    ELSE IF l \in {"int", "float"} /\ r \in {"int", "float"} THEN "float"
    ELSE IF l = "str" /\ r = "str" /\ op = "Add" THEN "str"
    ELSE "error"

RECURSIVE LatticeType(_)
LatticeType(e) ==
    IF e.kind = "Num" THEN e.id
    ELSE IF e.kind = "Str" THEN "str"
    ELSE IF e.kind = "BinOp"
         THEN Combine(LatticeType(e.kids[1]), LatticeType(e.kids[2]), e.id)
    ELSE "error"

\* C4: an assignment of an operation over literals that the lattice types
\* succeeds and binds the target to the lattice's type
C4_BinOpTypeIsLatticeResult ==
    (Visited /\ node.kind = "Assign" /\ Len(node.names) = 1 /\ Head(node.names) \in Names
       /\ node.value.kind = "BinOp" /\ LatticeType(node.value) # "error")
    => /\ verdict = "running"
       /\ symbol_table[Len(symbol_table)][Head(node.names)] = LatticeType(node.value)

-----------------------------------------------------------------------------
(* C5: on both paths (a statement, through visit_BinOp, and the right-hand  *)
(* side of an assignment, through get_value_type) an operation on two       *)
(* operands of types int, float, str, function or class is accepted exactly *)
(* when the table allows the pair under its operator, and fails with a type *)
(* mismatch otherwise.                                                      *)

OperandType(a, st) ==
    IF a.kind = "Num" THEN a.id
    ELSE IF a.kind = "Str" THEN "str"
    ELSE IF a.kind = "Name" THEN TypeOf(st, a.id)
    ELSE "other"

IsBinOpCheck(nd) ==
    /\ \/ nd.kind \in WrapperKinds
       \/ nd.kind = "Assign" /\ Len(nd.names) = 1 /\ Head(nd.names) \in Names
    /\ nd.value \in BinOps1

\* C5: the visit of an operation on two atoms is accepted exactly when the
\* lattice allows their types under the operator
C5_BinOpAcceptedExactlyForTablePairs ==
    [][(VisitStep /\ IsBinOpCheck(node')) =>
         LET l == OperandType(node'.value.kids[1], symbol_table)
             r == OperandType(node'.value.kids[2], symbol_table)
         IN  {l, r} \subseteq DataTypes \cup {"function", "class"} =>
                IF Combine(l, r, node'.value.id) # "error"
                THEN verdict' = "running"
                ELSE verdict' = "failure" /\ diag'.kind = "TypeMismatch"]_vars

-----------------------------------------------------------------------------
(* C6 *)

AssignStep == VisitStep /\ node'.kind = "Assign"
HasNonName(ts) == \E i \in 1..Len(ts) : ts[i] = NonName

\* expression e reads name n
RECURSIVE Mentions(_, _)
Mentions(e, n) ==
    \/ e.kind = "Name" /\ e.id = n
    \/ \E i \in 1..Len(e.kids) : Mentions(e.kids[i], n)

-----------------------------------------------------------------------------
(* C7: in the body of a function with parameter a, `return a + 1` is        *)
(* accepted: the parameter counts as numeric-compatible when the operation  *)
(* is type-checked.                                                         *)

\* C7: `return a + 1`, a a parameter of the innermost open function, passes
C7_ParameterIsNumericCompatible ==
    (/\ Visited
     /\ node.kind = "Return"
     /\ node.value.kind = "BinOp"
     /\ node.value.kids[1].kind = "Name"
     /\ node.value.kids[2] = Num("int")
     /\ Len(frames) > 1
     /\ node.value.kids[1].id \in DOMAIN frames[Len(frames)]
     /\ frames[Len(frames)][node.value.kids[1].id] = "variable")
    => verdict = "running"

-----------------------------------------------------------------------------
(* C8: the analysis is fail-fast.  No step follows a failure: no node is    *)
(* visited, the symbol table and the diagnostic stay as they are.  A run    *)
(* fails while visiting a node, with the diagnostic raised there; while it  *)
(* runs nothing has been raised; and it succeeds only from a running state  *)
(* in which the traversal of the Module is complete.                        *)

\* C8: nothing follows a failure, and success needs a complete traversal
C8_FailFast ==
    [][/\ verdict = "failure" =>
            /\ verdict' = "failure"
            /\ diag' = diag
            /\ symbol_table' = symbol_table
            /\ node' = node
            /\ visited' = visited
       /\ (verdict = "running" /\ verdict' = "failure") =>
            /\ VisitStep
            /\ diag' # NoDiag
            /\ pc' = "done"
       /\ verdict' = "running" => diag' = NoDiag
       /\ verdict' = "success" =>
            /\ verdict = "running"
            /\ diag' = NoDiag
            /\ pc = "loop"
            /\ Len(frames) = 1]_vars

\* a run that failed at a node with nodes still to come
C8_Witness ==
    /\ verdict = "failure"
    /\ pc = "done"
    /\ diag.kind = "UndefinedName"
    /\ visited < MaxNodes

-----------------------------------------------------------------------------
(* C9 *)

\* C9 as claimed: a node of a kind without a handler makes the analysis fail
\* with an unsupported-node diagnostic for that kind.
C9_UnhandledNodeRejected ==
    (Visited /\ node.kind \in WrapperKinds) =>
        (verdict = "failure" /\ diag = UnknownNode(node.kind))

\* C9 as amended: a node of a kind without a handler is not rejected: the
\* walker descends into its child and the analysis fails only if the visit
\* of the child does.  The symbol table is left as it was; a literal child
\* passes; a name child passes when it is bound and fails with UndefinedName
\* otherwise; a call child of a name that is no built-in fails with
\* UndefinedCall.
C9_UnhandledNodeDescends ==
    [][(VisitStep /\ node'.kind \in WrapperKinds) =>
         LET e == node'.value IN
         /\ symbol_table' = symbol_table
         /\ diag' # UnknownNode(node'.kind)
         /\ e \in Literals => verdict' = "running"
         /\ e.kind = "Name" =>
                IF Resolves(symbol_table, e.id) THEN verdict' = "running"
                ELSE verdict' = "failure" /\ diag' = UndefinedName(e.id)
         /\ (e.kind = "Call" /\ e.id \notin Builtins) =>
                (verdict' = "failure" /\ diag' = UndefinedCall(e.id))]_vars

\* `return x` has been visited with x bound, and the run goes on
C9_Witness ==
    /\ pc = "next"
    /\ node = Stmt("Return", "", <<>>, Name("x"))
    /\ verdict = "running"

-----------------------------------------------------------------------------
(* C10: the scope stack always holds at least one scope, and no step        *)
(* removes the base scope or a binding from it.                             *)

\* C10: the stack is never empty and the base scope only grows
C10_BaseScopeKept ==
    /\ [](Len(symbol_table) >= 1)
    /\ [][/\ Len(symbol_table') >= 1
          /\ DOMAIN symbol_table[1] \subseteq DOMAIN symbol_table'[1]]_vars

\* a declaration has been left, or a run has failed inside one, with
\* bindings in the base scope
C10_Witness ==
    /\ \/ pc = "next" /\ node = EndOfBody
       \/ verdict = "failure" /\ Len(frames) > 1
    /\ Len(symbol_table) = 1
    /\ DOMAIN symbol_table[1] = Names

====
